---------------------------- MODULE Spec2Model ----------------------------
(***************************************************************************)
(* Snapshot / rollback engine of ai-context                                *)
(* (scripts/core/rollback_manager.py, class RollbackManager).              *)
(*                                                                         *)
(* The state is what the manager reads and writes on disk and in git: the  *)
(* working tree, the last commit, the stash stack, the snapshot            *)
(* directories under .ai-context/snapshots, the history log and the clock. *)
(* A file's content is a number, 0 meaning "the file does not exist".      *)
(* File lists are modelled as sets of paths: the code only iterates them   *)
(* and tests them for emptiness and membership.                            *)
(***************************************************************************)
EXTENDS Integers, Sequences, FiniteSets, TLC

(* ------------------------------ bounds --------------------------------- *)

\* Clock seconds 1..MaxSec: one snapshot id per second (snap_<second>).
MaxSec == 3

\* Cap on the length of rollback_history.json (the logged operations of a
\* run) under Spec and SpecCrash.
MaxHistory == 2

\* The same cap under SpecStore.
MaxStoreHistory == 6

\* The same cap under SpecCorrupt.
MaxCorruptHistory == 3

\* The same cap under SpecOps and SpecLog.
MaxOpsHistory == 3

\* The clock seconds of a run under SpecOps and SpecLog: 1..MaxOpsSec.
MaxOpsSec == 2

\* The same cap under SpecIndex.
MaxIndexHistory == 2

\* The same cap under SpecCli and SpecCliDisk.
MaxCliHistory == 2

\* The same cap under SpecRace.
MaxRaceHistory == 3

\* The same cap under SpecDisk.
MaxDiskHistory == 3

\* Cap on the number of entries on the git stash stack (SpecCrash).
MaxStash == 1

Files == {"a.txt", "b.txt"}

\* File contents; 0 is "the file does not exist".
Contents == {0, 1, 2}

TaskIds == {"t1"}

\* keep_count arguments of cleanup_old_snapshots (argparse type=int).
KeepCounts == {-1, 0, 1, 2}

Ids == 1..MaxSec

\* The id "": snapshots_dir / "" is the snapshots directory itself.
ROOT_ID == 0

\* The ids a caller can pass to get_snapshot, diff, rollback and
\* delete_snapshot.
AnyIds == Ids \cup {ROOT_ID}

None == "None"

\* files arguments: files=None, or a list of paths (possibly empty).
FileArgs ==
    {[given |-> FALSE, list |-> {}]}
      \cup {[given |-> TRUE, list |-> s] : s \in {{}, {"a.txt"}, {"a.txt", "b.txt"}}}

(* --------------------------- program constants ------------------------- *)

GIT_STASH == "git_stash"

FILE_BACKUP == "file_backup"

HYBRID == "hybrid"

\* The marker file .ai-context/.gitignore written by _ensure_directories.
GITIGNORE == ".ai-context/.gitignore"

\* The reference string read from the first line of `git stash list`.
STASH_TOP == "stash@{0}"

\* The tag create_snapshot puts in front of its stash message.
AI_CONTEXT == "ai-context:"

\* The working trees: a.txt with any content, b.txt absent or present.
Trees == {t \in [Files -> Contents] : t["b.txt"] <= 1}

\* The commits a project can have: none yet, a.txt committed, both committed.
Heads == { [f \in Files |-> 0],
           [f \in Files |-> IF f = "a.txt" THEN 1 ELSE 0],
           [f \in Files |-> 1] }

\* The projects: not under version control; under version control with
\* the marker file committed or ignored, for each of Heads; under version
\* control with the marker file untracked, as _ensure_directories leaves it.
Projects ==
    { << FALSE, FALSE, [f \in Files |-> 0] >> }
      \cup { << TRUE, FALSE, h >> : h \in Heads }
      \cup { << TRUE, TRUE, [f \in Files |-> IF f = "a.txt" THEN 1 ELSE 0] >> }

\* The manager processes that can run at the same time.
Procs == {1, 2}

\* A process that is not inside _add_to_history.
Idle == [pc |-> "idle", mine |-> << >>]

\* What the user types at a [y/N] prompt.
Answers == {"y", "Y", "n"}

\* Nothing is typed: no prompt is shown.
NoAnswer == "-"

\* The record of a run of scripts/rollback.py:
\*   cmd        the subcommand main dispatched to
\*   dry_run    --dry-run was given
\*   tty, yes   sys.stdin.isatty() at start-up, --yes was given
\*   answer     what the user typed
\*   prompted   input() was called
\*   performed  the manager's rollback / delete_snapshot /
\*              cleanup_old_snapshots was called
\*   exit       the exit code
Run(cmd, dry_run, tty, yes, answer, prompted, performed, exit) ==
    [cmd |-> cmd, dry_run |-> dry_run, tty |-> tty, yes |-> yes, answer |-> answer,
     prompted |-> prompted, performed |-> performed, exit |-> exit]

\* No run of the command line yet.
NoRun == Run("none", FALSE, FALSE, FALSE, NoAnswer, FALSE, FALSE, 0)

VARIABLES
    isGit,       \* project_root/.git exists
    markerUntracked, \* .ai-context/.gitignore is neither committed nor ignored
    head,        \* content of every path in the last commit (0: not in it)
    index,       \* content of every path in the git index (0: not tracked)
    tree,        \* content of every path in the working tree
    stash,       \* git stash stack, newest first
    snapshots,   \* .ai-context/snapshots: id -> directory
    history,     \* logs/rollback_history.json
    clock,       \* the current UTC second
    ticks,       \* sub-second instant: number of timestamps issued so far
    last,        \* the most recent call: operation, arguments and result
    captured,    \* per id, the content the files to capture (files_modified) had
                 \* when create_snapshot was last called for that id
    historyWritable, \* logs/rollback_history.json can be written
    procs,       \* per manager process: where it is in _add_to_history
    cli          \* the most recent run of scripts/rollback.py: arguments and exit code

vars == << isGit, markerUntracked, head, index, tree, stash, snapshots, history,
           clock, ticks, last, captured, historyWritable, procs, cli >>

(* ------------------------------ git ------------------------------------ *)

\* RollbackManager._is_git_repo
_is_git_repo == isGit

\* `git status --porcelain` on tree t: every path with a staged or an
\* unstaged change (modified, deleted, added, untracked), the marker file
\* included.
GitStatus(t) ==
    {f \in Files : index[f] # head[f] \/ t[f] # index[f]}
       \cup (IF markerUntracked THEN {GITIGNORE} ELSE {})

\* `git ls-files --others --exclude-standard` on tree t.
GitLsOthers(t) ==
    {f \in Files : t[f] # 0 /\ index[f] = 0} \cup (IF markerUntracked THEN {GITIGNORE} ELSE {})

\* RollbackManager._get_modified_files
_get_modified_files(t) == IF ~_is_git_repo THEN {} ELSE GitStatus(t)

\* RollbackManager._get_untracked_files
_get_untracked_files(t) == IF ~_is_git_repo THEN {} ELSE GitLsOthers(t)

\* A repository without a first commit: `git stash push` exits non-zero.
HasCommit == \E f \in Files : head[f] # 0

\* `git stash push -u -m "ai-context: <message>"` on tree t and stack s.
\* rc # 0: no commit yet.  Nothing to save: rc = 0 and nothing is pushed.
\* Otherwise the entry keeps the working tree and the index, and both are
\* reset to the last commit.
GitStashPush(t, s, message) ==
    IF ~HasCommit THEN [rc |-> 1, tree |-> t, index |-> index, stash |-> s]
    ELSE IF \A f \in Files : t[f] = head[f] /\ index[f] = head[f]
    THEN [rc |-> 0, tree |-> t, index |-> index, stash |-> s]
    ELSE [rc |-> 0, tree |-> head, index |-> head,
          stash |-> << [tag |-> AI_CONTEXT, message |-> message,
                        saved |-> t, staged |-> index] >> \o s]

\* The paths a stash entry changes.
StashPaths(e) == {f \in Files : e.saved[f] # head[f] \/ e.staged[f] # head[f]}

\* What `git stash pop` (without --index) puts at path f of entry e: a path
\* of the last commit gets its stashed content and is left unstaged; a new
\* path that was added to the index comes back added, with its stashed
\* content (its staged content when it was missing from the tree); an
\* untracked path comes back untracked.
PoppedPath(e, f) ==
    IF head[f] # 0 THEN [tree |-> e.saved[f], index |-> head[f]]
    ELSE IF e.staged[f] # 0
    THEN LET c == IF e.saved[f] # 0 THEN e.saved[f] ELSE e.staged[f]
         IN  [tree |-> c, index |-> c]
    ELSE [tree |-> e.saved[f], index |-> 0]

\* `git stash pop` on tree t, index i and stack s: applies the newest entry
\* and drops it; when a path of the entry has local changes the pop is
\* refused and the entry stays.
GitStashPop(t, i, s) ==
    IF s = << >> THEN [tree |-> t, index |-> i, stash |-> s]
    ELSE LET e == Head(s) IN
         IF \A f \in StashPaths(e) : t[f] = head[f] /\ i[f] = head[f]
         THEN [tree  |-> [f \in Files |-> IF f \in StashPaths(e)
                                           THEN PoppedPath(e, f).tree ELSE t[f]],
               index |-> [f \in Files |-> IF f \in StashPaths(e)
                                           THEN PoppedPath(e, f).index ELSE i[f]],
               stash |-> Tail(s)]
         ELSE [tree |-> t, index |-> i, stash |-> s]

\* `git checkout -- .` followed by `git clean -fd`: every tracked path gets
\* its content in the index (the last commit's when nothing is staged),
\* every untracked path is removed.
GitCheckoutAllAndClean(t) == [f \in Files |-> index[f]]

\* `git checkout HEAD -- <file>`: a path of the last commit is restored in
\* the working tree, any other path is an error that changes nothing.
GitCheckoutHead(t, file) ==
    IF file \in Files /\ head[file] # 0 THEN [t EXCEPT ![file] = head[file]] ELSE t

\* The index after `git checkout HEAD -- <file>` for every file of files.
CheckoutEachIndex(files) ==
    [f \in Files |-> IF f \in files /\ head[f] # 0 THEN head[f] ELSE index[f]]

(* --------------------------- snapshot store ---------------------------- *)

\* The content of a metadata.json.  kind "valid" is what create_snapshot
\* writes; the other kinds are damaged files:
\*   invalid_json     not JSON                   (json.JSONDecodeError)
\*   not_object       a JSON list, string, ...   (TypeError in cls(**data))
\*   missing_field    a required field missing   (TypeError)
\*   extra_field      an unknown field           (TypeError)
\*   null_created_at  "created_at": null         (loads; None is not orderable)
\*   bad_bytes        not UTF-8                  (UnicodeDecodeError)
CorruptKinds == {"invalid_json", "not_object", "missing_field", "extra_field",
                 "null_created_at", "bad_bytes"}

NoMetadata ==
    [kind |-> "absent", id |-> 0, created_at |-> 0, task_id |-> None, mode |-> None,
     files_modified |-> {}, git_ref |-> None, backup_path |-> None]

\* readable: the file opens as a gzip tar archive.
NoBackup == [exists |-> FALSE, readable |-> TRUE, members |-> [f \in Files |-> 0]]

\* A path of .ai-context/snapshots that is no directory.
NoDir == [exists |-> FALSE, metadata |-> NoMetadata, backup |-> NoBackup, stash_ref |-> None]

\* snapshot_dir.mkdir(parents=True, exist_ok=True): a fresh directory is
\* empty, an existing one keeps its files; the snapshots directory is made
\* when it is missing.
MkDir(id) == [snapshots[id] EXCEPT !.exists = TRUE]

\* RollbackManager._generate_snapshot_id: snap_<UTC second>.
_generate_snapshot_id == clock

\* _determine_mode with the first branch returning the wrong mode: a project
\* without version control is classified hybrid.
_determine_mode_WrongFallback(t) ==
    IF ~_is_git_repo THEN HYBRID
    ELSE IF _get_untracked_files(t) # {} THEN HYBRID
    ELSE GIT_STASH

\* RollbackManager._determine_mode
_determine_mode(t) ==
    IF ~_is_git_repo THEN FILE_BACKUP
    ELSE IF _get_untracked_files(t) # {} THEN HYBRID
    ELSE GIT_STASH

\* RollbackManager._create_git_stash: push, read the first line of the stash
\* list, write stash_ref.txt, pop.  Yields the reference (or None) with the
\* tree, the stash stack and the snapshot directory it leaves.
_create_git_stash(t, s, dir, message) ==
    LET pushed == GitStashPush(t, s, message) IN
    IF pushed.rc # 0 THEN [ref |-> None, tree |-> t, index |-> index, stash |-> s, dir |-> dir]
    ELSE IF pushed.stash # << >> /\ Head(pushed.stash).tag = AI_CONTEXT
    THEN LET popped == GitStashPop(pushed.tree, pushed.index, pushed.stash) IN
         [ref |-> STASH_TOP, tree |-> popped.tree, index |-> popped.index,
          stash |-> popped.stash, dir |-> [dir EXCEPT !.stash_ref = STASH_TOP]]
    ELSE [ref |-> None, tree |-> pushed.tree, index |-> pushed.index,
          stash |-> pushed.stash, dir |-> dir]

\* _create_file_backup with the existence test of line 214 inverted: no
\* existing file becomes a member of the archive.
_create_file_backup_SkipsExisting(t, files) ==
    [exists |-> TRUE, readable |-> TRUE, members |-> [f \in Files |-> 0]]

\* RollbackManager._create_file_backup: files.tar.gz holds every listed path
\* that exists, under its relative name (content 0: not a member).
_create_file_backup(t, files) ==
    [exists |-> TRUE, readable |-> TRUE,
     members |-> [f \in Files |-> IF f \in files THEN t[f] ELSE 0]]

\* _add_to_history without the _load_history of line 238: the file is
\* written with the new entry only.
_add_to_history_NoLoad(h, action, snapshot_id) ==
    << [action |-> action, snapshot_id |-> snapshot_id] >>

\* The entry _add_to_history appends (lines 239-244); the timestamp and the
\* details are read by nothing.
HistoryEntry(action, snapshot_id) == [action |-> action, snapshot_id |-> snapshot_id]

\* A save that appends to what the file holds now instead of overwriting it.
_save_history_Appends(mine, onDisk) ==
    IF historyWritable THEN Append(onDisk, mine[Len(mine)]) ELSE onDisk

\* RollbackManager._save_history: the file is overwritten with the list the
\* caller holds in memory, whatever the file holds now.  When the file
\* cannot be written write_text raises OSError and the file stays as it was.
_save_history(mine, onDisk) ==
    IF historyWritable THEN mine ELSE onDisk

\* RollbackManager._add_to_history, run without interruption: load, append
\* in memory, save.
_add_to_history(h, action, snapshot_id) ==
    _save_history(Append(h, HistoryEntry(action, snapshot_id)), h)

\* json.loads(metadata_file.read_text()) and Snapshot.from_dict as both
\* list_snapshots and get_snapshot run them inside
\* try/except (json.JSONDecodeError, OSError, TypeError):
\*   "ok" a Snapshot was built, "caught" the except clause took the error,
\*   "raised" the error is none of the three and leaves the method.
from_dict(metadata) ==
    CASE metadata.kind \in {"valid", "null_created_at"} -> "ok"
      [] metadata.kind \in {"invalid_json", "not_object", "missing_field", "extra_field"} -> "caught"
      [] metadata.kind = "bad_bytes" -> "raised"

\* The directories list_snapshots reads: those holding a metadata.json.
WithMetadata(store) == {i \in Ids : store[i].exists /\ store[i].metadata.kind # "absent"}

\* snapshots.sort(key=lambda s: s.created_at, reverse=True).  created_at is an
\* ISO-8601 UTC string of fixed layout, so the string order is the order of
\* the instants; the model compares the instants.
RECURSIVE SortNewestFirst(_)
SortNewestFirst(S) ==
    IF S = {} THEN << >>
    ELSE LET m == CHOOSE x \in S : \A y \in S : y.created_at <= x.created_at
         IN  << m >> \o SortNewestFirst(S \ {m})

\* RollbackManager.list_snapshots on the store: the list it returns, or
\* raised = TRUE when an exception leaves it (an uncaught read error, or the
\* sort comparing a null created_at with another entry).
list_snapshots_of(store) ==
    LET read   == {i \in WithMetadata(store) : from_dict(store[i].metadata) = "ok"}
        loaded == {store[i].metadata : i \in read}
    IN  IF \E i \in WithMetadata(store) : from_dict(store[i].metadata) = "raised"
        THEN [raised |-> TRUE, list |-> << >>]
        ELSE IF Cardinality(loaded) >= 2 /\ \E m \in loaded : m.kind = "null_created_at"
        THEN [raised |-> TRUE, list |-> << >>]
        ELSE [raised |-> FALSE, list |-> SortNewestFirst(loaded)]

list_snapshots == list_snapshots_of(snapshots)

\* RollbackManager.get_snapshot: found with the Snapshot, not found (None),
\* or raised.
get_snapshot_of(store, snapshot_id) ==
    IF ~(store[snapshot_id].exists /\ store[snapshot_id].metadata.kind # "absent")
    THEN [raised |-> FALSE, found |-> FALSE, snapshot |-> NoMetadata]
    ELSE CASE from_dict(store[snapshot_id].metadata) = "ok" ->
                [raised |-> FALSE, found |-> TRUE, snapshot |-> store[snapshot_id].metadata]
           [] from_dict(store[snapshot_id].metadata) = "caught" ->
                [raised |-> FALSE, found |-> FALSE, snapshot |-> NoMetadata]
           [] from_dict(store[snapshot_id].metadata) = "raised" ->
                [raised |-> TRUE, found |-> FALSE, snapshot |-> NoMetadata]

get_snapshot(snapshot_id) == get_snapshot_of(snapshots, snapshot_id)

\* RollbackManager.get_latest_snapshot
get_latest_snapshot ==
    IF list_snapshots.list = << >> THEN NoMetadata ELSE Head(list_snapshots.list)

\* `git diff --name-status` on tree t: the tracked paths whose working-tree
\* content differs from the index.
GitDiff(t) == {f \in Files : index[f] # 0 /\ t[f] # index[f]}

\* RollbackManager.diff: not found (None), or the DiffResult with the files
\* it names (added, modified or deleted); raised when get_snapshot raises.
diff(snapshot_id) ==
    LET got == get_snapshot(snapshot_id) IN
    IF got.raised THEN [raised |-> TRUE, found |-> FALSE, files |-> {}]
    ELSE IF ~got.found THEN [raised |-> FALSE, found |-> FALSE, files |-> {}]
    ELSE [raised |-> FALSE, found |-> TRUE,
          files  |-> IF _is_git_repo THEN GitDiff(tree) ELSE got.snapshot.files_modified]

(* ------------------------------ calls ---------------------------------- *)

NoFiles == [given |-> FALSE, list |-> {}]

\* The record of a call: what was called and what came back.  The id of
\* a logged call is the snapshot_id of the newest history entry.
\*   selective  a non-empty files list was passed (`if files:` is true)
\*   keep       the keep_count passed
\*   ok         the boolean returned (TRUE where the call returns an object)
\*   count      the number returned
\*   raised     an exception left the call
\*   changed    the call changed the working tree
Call(op, files, keep, ok, count, raised, changed) ==
    [op |-> op, selective |-> (files.given /\ files.list # {}), keep |-> keep,
     ok |-> ok, count |-> count, raised |-> raised, changed |-> changed]

\* The Snapshot record create_snapshot builds (lines 287-297).
Snapshot(id, created_at, task_id, mode, files_modified, git_ref, backup_path) ==
    [kind |-> "valid", id |-> id, created_at |-> created_at, task_id |-> task_id,
     mode |-> mode, files_modified |-> files_modified, git_ref |-> git_ref,
     backup_path |-> backup_path]

\* The path str(snapshot_dir / BACKUP_FILE) that _create_file_backup returns.
BACKUP_FILE == "files.tar.gz"

\* RollbackManager.create_snapshot(task_id, task_description, agent, files).
\* task_description and agent are copied into the record like task_id and
\* are read by nothing; task_id stands for the three.
create_snapshot(task_id, files) ==
    /\ LET snapshot_id    == _generate_snapshot_id
           snapshot_dir   == MkDir(snapshot_id)
           mode0          == _determine_mode(tree)
           modified_files == IF files.given /\ files.list # {} THEN files.list
                             ELSE _get_modified_files(tree)
           stashed        == IF mode0 = GIT_STASH
                             THEN _create_git_stash(tree, stash, snapshot_dir, task_id)
                             ELSE [ref |-> None, tree |-> tree, index |-> index,
                                   stash |-> stash, dir |-> snapshot_dir]
           git_ref        == stashed.ref
           mode           == IF mode0 = GIT_STASH /\ git_ref = None THEN FILE_BACKUP ELSE mode0
           all_files      == modified_files \cup _get_untracked_files(stashed.tree)
           archived       == mode \in {FILE_BACKUP, HYBRID} /\ all_files # {}
           backup_path    == IF archived THEN BACKUP_FILE ELSE None
           dir1           == IF archived
                             THEN [stashed.dir EXCEPT !.backup = _create_file_backup(stashed.tree, all_files)]
                             ELSE stashed.dir
           snapshot       == Snapshot(snapshot_id, ticks, task_id, mode, modified_files,
                                      git_ref, backup_path)
       IN  /\ snapshots' = [snapshots EXCEPT ![snapshot_id] = [dir1 EXCEPT !.metadata = snapshot],
                                           ![ROOT_ID].exists = TRUE]
           /\ tree' = stashed.tree
           /\ index' = stashed.index
           /\ stash' = stashed.stash
           /\ history' = _add_to_history(history, "create", snapshot_id)
           /\ ticks' = ticks + 1
           /\ last' = Call("create", files, 0, historyWritable, 0, ~historyWritable,
                           stashed.tree # tree)
           /\ captured' = [captured EXCEPT ![snapshot_id] =
                              [f \in Files |-> IF f \in modified_files THEN tree[f] ELSE 0]]
    /\ UNCHANGED << historyWritable, procs, cli, isGit, markerUntracked, head, clock >>

\* create_snapshot stopped right before the stash pop of _create_git_stash
\* (line 201): the directory and stash_ref.txt exist, the entry is on the
\* stack, the tree is the stashed one, nothing else was done.
create_snapshot_interrupted(task_id) ==
    /\ _determine_mode(tree) = GIT_STASH
    /\ LET snapshot_id == _generate_snapshot_id
           pushed      == GitStashPush(tree, stash, task_id)
       IN  /\ pushed.rc = 0
           /\ pushed.stash # stash
           /\ tree' = pushed.tree
           /\ index' = pushed.index
           /\ stash' = pushed.stash
           /\ snapshots' = [snapshots EXCEPT ![snapshot_id] =
                               [MkDir(snapshot_id) EXCEPT !.stash_ref = STASH_TOP],
                                           ![ROOT_ID].exists = TRUE]
           /\ last' = Call("interrupted", NoFiles, 0, FALSE, 0, FALSE, pushed.tree # tree)
    /\ UNCHANGED << historyWritable, procs, cli, isGit, markerUntracked, head, history, clock, ticks, captured >>

\* The extraction with the `if files:` branch of line 449 lost: every member
\* is extracted whatever the files list says.
Extract_IgnoresList(t, backup, files) ==
    [f \in Files |-> IF backup.members[f] # 0 THEN backup.members[f] ELSE t[f]]

\* The extraction that also removes what the archive does not hold: the
\* tree is made the captured state instead of being overwritten by it.
Extract_RemovesOthers(t, backup, files) ==
    [f \in Files |->
        IF files.given /\ files.list # {} => f \in files.list
        THEN backup.members[f] ELSE t[f]]

\* tar.extractall / tar.extract of the members named in files (lines 448-456).
Extract(t, backup, files) ==
    [f \in Files |->
        IF backup.members[f] # 0 /\ (files.given /\ files.list # {} => f \in files.list)
        THEN backup.members[f] ELSE t[f]]

\* The selective git restore (lines 435-436): one checkout per listed file.
CheckoutEach(t, files) ==
    [f \in Files |-> IF f \in files THEN GitCheckoutHead(t, f)[f] ELSE t[f]]

\* The restore step of rollback (lines 429-457): the tree it leaves,
\* whether success was set, and whether tarfile.open raised (a files.tar.gz
\* that is no gzip archive: tarfile.ReadError, which nothing catches).
Restore(snapshot, dir, files) ==
    IF snapshot.mode = GIT_STASH /\ snapshot.git_ref # None
    THEN IF files.given /\ files.list # {}
         THEN [tree |-> CheckoutEach(tree, files.list), index |-> CheckoutEachIndex(files.list),
               success |-> TRUE, raised |-> FALSE]
         ELSE [tree |-> GitCheckoutAllAndClean(tree), index |-> index,
               success |-> TRUE, raised |-> FALSE]
    ELSE IF (snapshot.backup_path # None \/ dir.backup.exists) /\ dir.backup.exists
    THEN IF ~dir.backup.readable
         THEN [tree |-> tree, index |-> index, success |-> FALSE, raised |-> TRUE]
         ELSE [tree |-> Extract(tree, dir.backup, files), index |-> index,
               success |-> TRUE, raised |-> FALSE]
    ELSE [tree |-> tree, index |-> index, success |-> FALSE, raised |-> FALSE]

\* RollbackManager.rollback on the current state: what it leaves and what
\* it returns.  The OSError of _save_history (line 460) leaves the method
\* after the files were restored.
rollback_of(snapshot_id, files) ==
    LET got == get_snapshot(snapshot_id) IN
    IF got.raised \/ ~got.found
    THEN [tree |-> tree, index |-> index, history |-> history,
          ok |-> FALSE, raised |-> got.raised]
    ELSE LET done == Restore(got.snapshot, snapshots[snapshot_id], files) IN
         [tree    |-> done.tree,
          index   |-> done.index,
          history |-> IF done.success
                      THEN _add_to_history(history, "rollback", snapshot_id)
                      ELSE history,
          ok      |-> done.success /\ historyWritable,
          raised  |-> done.raised \/ (done.success /\ ~historyWritable)]

\* RollbackManager.rollback(snapshot_id, files)
rollback(snapshot_id, files) ==
    /\ LET done == rollback_of(snapshot_id, files) IN
       /\ tree' = done.tree
       /\ index' = done.index
       /\ history' = done.history
       /\ last' = Call("rollback", files, 0, done.ok, 0, done.raised, done.tree # tree)
    /\ UNCHANGED << historyWritable, procs, cli, isGit, markerUntracked, head, stash, snapshots, clock, ticks, captured >>

\* RollbackManager.delete_snapshot on a store and a history: what it leaves
\* and what it returns.  shutil.rmtree removes the directory the id resolves
\* to with everything below it: for the id "" every snapshot.  The OSError
\* of _save_history is caught by line 486: False after the removal.
delete_snapshot_of(store, h, snapshot_id) ==
    IF ~store[snapshot_id].exists
    THEN [snapshots |-> store, history |-> h, ok |-> FALSE]
    ELSE [snapshots |-> IF snapshot_id = ROOT_ID
                        THEN [i \in AnyIds |-> NoDir]
                        ELSE [store EXCEPT ![snapshot_id] = NoDir],
          history   |-> _add_to_history(h, "delete", snapshot_id),
          ok        |-> historyWritable]

\* RollbackManager.delete_snapshot(snapshot_id)
delete_snapshot(snapshot_id) ==
    /\ LET done == delete_snapshot_of(snapshots, history, snapshot_id) IN
       /\ snapshots' = done.snapshots
       /\ history' = done.history
       /\ last' = Call("delete", NoFiles, 0, done.ok, 0, FALSE, FALSE)
    /\ UNCHANGED << historyWritable, procs, cli, isGit, markerUntracked, head, index, tree, stash, clock, ticks, captured >>

\* The slice taken one position late: snapshots[keep_count + 1:].
SliceFrom_OffByOne(seq, keep_count) ==
    SubSeq(seq, keep_count + 2, Len(seq))

\* The Python slice snapshots[keep_count:].
SliceFrom(seq, keep_count) ==
    LET start == IF keep_count < 0
                 THEN (IF Len(seq) + keep_count < 0 THEN 0 ELSE Len(seq) + keep_count)
                 ELSE (IF keep_count > Len(seq) THEN Len(seq) ELSE keep_count)
    IN  SubSeq(seq, start + 1, Len(seq))

\* The loop of cleanup_old_snapshots (lines 504-507) over the entries doomed.
RECURSIVE DeleteEach(_, _)
DeleteEach(doomed, st) ==
    IF doomed = << >> THEN st
    ELSE LET done == delete_snapshot_of(st.snapshots, st.history, Head(doomed).id)
         IN  DeleteEach(Tail(doomed),
                        [snapshots |-> done.snapshots, history |-> done.history,
                         deleted |-> st.deleted + (IF done.ok THEN 1 ELSE 0)])

\* RollbackManager.cleanup_old_snapshots on a store and a history.
cleanup_old_snapshots_of(store, h, keep_count) ==
    LET listed == list_snapshots_of(store) IN
    IF listed.raised
    THEN [snapshots |-> store, history |-> h, deleted |-> 0, raised |-> TRUE]
    ELSE IF Len(listed.list) <= keep_count
    THEN [snapshots |-> store, history |-> h, deleted |-> 0, raised |-> FALSE]
    ELSE LET st == DeleteEach(SliceFrom(listed.list, keep_count),
                              [snapshots |-> store, history |-> h, deleted |-> 0])
         IN  [snapshots |-> st.snapshots, history |-> st.history,
              deleted |-> st.deleted, raised |-> FALSE]

\* RollbackManager.cleanup_old_snapshots(keep_count)
cleanup_old_snapshots(keep_count) ==
    LET done == cleanup_old_snapshots_of(snapshots, history, keep_count) IN
    /\ snapshots' = done.snapshots
    /\ history' = done.history
    /\ last' = Call("cleanup", NoFiles, keep_count, ~done.raised, done.deleted, done.raised, FALSE)
    /\ UNCHANGED << historyWritable, procs, cli, isGit, markerUntracked, head, index, tree, stash, clock, ticks, captured >>

(* --------------------------- command line ------------------------------ *)

\* str.lower() on an answer.
Lower(answer) == IF answer = "Y" THEN "y" ELSE answer

\* The test with lines 371-374 of main lost: --yes does not replace stdin.
IsAtty_IgnoresYes(tty, yes) == tty

\* sys.stdin.isatty() where the subcommands test it: main replaces stdin by
\* a StringIO when --yes is given (lines 371-374), which is no terminal.
IsAtty(tty, yes) == tty /\ ~yes

\* What can be typed in a run: an answer when the prompt is shown.
AnswersAt(tty, yes) == IF IsAtty(tty, yes) THEN Answers ELSE {NoAnswer}

\* The confirmation of lines 151-155 (and 195-199, 241-245, 277-281): the
\* subcommand goes on unless a prompt is shown and the answer is not y.
Confirmed(tty, yes, answer) == IsAtty(tty, yes) => Lower(answer) = "y"

\* A run that calls no mutating method of the manager.
NothingDone ==
    /\ last' = Call("cli", NoFiles, 0, TRUE, 0, FALSE, FALSE)
    /\ UNCHANGED << tree, index, snapshots, history >>

\* The part of the state no subcommand writes.
CliFrame ==
    UNCHANGED << historyWritable, procs, isGit, markerUntracked, head, stash, clock, ticks,
                 captured >>

\* cmd_list (--list, and main's default)
cmd_list ==
    /\ cli' = Run("list", FALSE, FALSE, FALSE, NoAnswer, FALSE, FALSE,
                  IF list_snapshots.raised THEN 1 ELSE 0)
    /\ NothingDone
    /\ CliFrame

\* cmd_latest (--latest)
cmd_latest(dry_run, tty, yes, answer) ==
    /\ IF list_snapshots.raised \/ list_snapshots.list = << >>
       THEN /\ cli' = Run("latest", dry_run, tty, yes, answer, FALSE, FALSE, 1)
            /\ NothingDone
       ELSE IF dry_run
       THEN /\ cli' = Run("latest", dry_run, tty, yes, answer, FALSE, FALSE, 0)
            /\ NothingDone
       ELSE IF ~Confirmed(tty, yes, answer)
       THEN /\ cli' = Run("latest", dry_run, tty, yes, answer, TRUE, FALSE, 0)
            /\ NothingDone
       ELSE LET done == rollback_of(get_latest_snapshot.id, NoFiles) IN
            /\ tree' = done.tree
            /\ index' = done.index
            /\ history' = done.history
            /\ snapshots' = snapshots
            /\ last' = Call("cli", NoFiles, 0, done.ok, 0, done.raised, done.tree # tree)
            /\ cli' = Run("latest", dry_run, tty, yes, answer, IsAtty(tty, yes), TRUE,
                          IF done.ok THEN 0 ELSE 1)
    /\ CliFrame

\* cmd_rollback_by_id (--id SNAPSHOT_ID [--files FILE ...])
cmd_rollback_by_id(snapshot_id, files, dry_run, tty, yes, answer) ==
    /\ IF ~get_snapshot(snapshot_id).found
       THEN /\ cli' = Run("id", dry_run, tty, yes, answer, FALSE, FALSE, 1)
            /\ NothingDone
       ELSE IF dry_run
       THEN /\ cli' = Run("id", dry_run, tty, yes, answer, FALSE, FALSE, 0)
            /\ NothingDone
       ELSE IF ~Confirmed(tty, yes, answer)
       THEN /\ cli' = Run("id", dry_run, tty, yes, answer, TRUE, FALSE, 0)
            /\ NothingDone
       ELSE LET done == rollback_of(snapshot_id, files) IN
            /\ tree' = done.tree
            /\ index' = done.index
            /\ history' = done.history
            /\ snapshots' = snapshots
            /\ last' = Call("cli", files, 0, done.ok, 0, done.raised, done.tree # tree)
            /\ cli' = Run("id", dry_run, tty, yes, answer, IsAtty(tty, yes), TRUE,
                          IF done.ok THEN 0 ELSE 1)
    /\ CliFrame

\* cmd_diff (--diff SNAPSHOT_ID)
cmd_diff(snapshot_id) ==
    /\ cli' = Run("diff", FALSE, FALSE, FALSE, NoAnswer, FALSE, FALSE,
                  IF get_snapshot(snapshot_id).found THEN 0 ELSE 1)
    /\ NothingDone
    /\ CliFrame

\* cmd_delete (--delete SNAPSHOT_ID); main does not pass it args.dry_run,
\* which is recorded and not read.
cmd_delete(snapshot_id, dry_run, tty, yes, answer) ==
    /\ IF ~get_snapshot(snapshot_id).found
       THEN /\ cli' = Run("delete", dry_run, tty, yes, answer, FALSE, FALSE, 1)
            /\ NothingDone
       ELSE IF ~Confirmed(tty, yes, answer)
       THEN /\ cli' = Run("delete", dry_run, tty, yes, answer, TRUE, FALSE, 0)
            /\ NothingDone
       ELSE LET done == delete_snapshot_of(snapshots, history, snapshot_id) IN
            /\ snapshots' = done.snapshots
            /\ history' = done.history
            /\ UNCHANGED << tree, index >>
            /\ last' = Call("cli", NoFiles, 0, done.ok, 0, FALSE, FALSE)
            /\ cli' = Run("delete", dry_run, tty, yes, answer, IsAtty(tty, yes), TRUE,
                          IF done.ok THEN 0 ELSE 1)
    /\ CliFrame

\* cmd_cleanup (--cleanup [KEEP_COUNT]); main does not pass it args.dry_run,
\* which is recorded and not read, and the number cleanup_old_snapshots
\* returns is only printed.
cmd_cleanup(keep_count, dry_run, tty, yes, answer) ==
    /\ IF list_snapshots.raised
       THEN /\ cli' = Run("cleanup", dry_run, tty, yes, answer, FALSE, FALSE, 1)
            /\ NothingDone
       ELSE IF Len(list_snapshots.list) <= keep_count
       THEN /\ cli' = Run("cleanup", dry_run, tty, yes, answer, FALSE, FALSE, 0)
            /\ NothingDone
       ELSE IF ~Confirmed(tty, yes, answer)
       THEN /\ cli' = Run("cleanup", dry_run, tty, yes, answer, TRUE, FALSE, 0)
            /\ NothingDone
       ELSE LET done == cleanup_old_snapshots_of(snapshots, history, keep_count) IN
            /\ snapshots' = done.snapshots
            /\ history' = done.history
            /\ UNCHANGED << tree, index >>
            /\ last' = Call("cli", NoFiles, keep_count, TRUE, done.deleted, FALSE, FALSE)
            /\ cli' = Run("cleanup", dry_run, tty, yes, answer, IsAtty(tty, yes), TRUE, 0)
    /\ CliFrame

(* ------------------------ concurrent processes ------------------------- *)

\* Process p runs delete_snapshot(snapshot_id) up to the end of line 244 of
\* _add_to_history: the directory is removed, the log is loaded and the
\* entry appended in memory; nothing is written yet.
StartDelete(p, snapshot_id) ==
    /\ procs[p].pc = "idle"
    /\ snapshots[snapshot_id].exists
    /\ snapshots' = delete_snapshot_of(snapshots, history, snapshot_id).snapshots
    /\ procs' = [procs EXCEPT ![p] =
                    [pc |-> "loaded", mine |-> Append(history, HistoryEntry("delete", snapshot_id))]]
    /\ last' = Call("start", NoFiles, 0, TRUE, 0, FALSE, FALSE)
    /\ UNCHANGED << historyWritable, cli, isGit, markerUntracked, head, index, tree, stash,
                    history, clock, ticks, captured >>

\* Process p runs a full rollback(snapshot_id) up to the end of line 244 of
\* _add_to_history: the files are restored, the log is loaded and the entry
\* appended in memory; nothing is written yet.
StartRollback(p, snapshot_id) ==
    /\ procs[p].pc = "idle"
    /\ rollback_of(snapshot_id, NoFiles).ok
    /\ tree' = rollback_of(snapshot_id, NoFiles).tree
    /\ index' = rollback_of(snapshot_id, NoFiles).index
    /\ procs' = [procs EXCEPT ![p] =
                    [pc |-> "loaded", mine |-> Append(history, HistoryEntry("rollback", snapshot_id))]]
    /\ last' = Call("start", NoFiles, 0, TRUE, 0, FALSE, tree' # tree)
    /\ UNCHANGED << historyWritable, cli, isGit, markerUntracked, head, stash, snapshots,
                    history, clock, ticks, captured >>

\* Process p runs line 245 of _add_to_history, _save_history, and its
\* operation returns.
Save(p) ==
    /\ procs[p].pc = "loaded"
    /\ history' = _save_history(procs[p].mine, history)
    /\ procs' = [procs EXCEPT ![p].pc = "done"]
    /\ last' = Call("save", NoFiles, 0, TRUE, 0, FALSE, FALSE)
    /\ UNCHANGED << historyWritable, cli, isGit, markerUntracked, head, index, tree, stash,
                    snapshots, clock, ticks, captured >>

(* --------------------------- environment ------------------------------- *)

\* A task (or the user) writes, creates or removes a file of the tree.
EditFile(f, c) ==
    /\ tree[f] # c
    /\ [tree EXCEPT ![f] = c] \in Trees
    /\ tree' = [tree EXCEPT ![f] = c]
    /\ last' = Call("edit", NoFiles, 0, TRUE, 0, FALSE, TRUE)
    /\ UNCHANGED << historyWritable, procs, cli, isGit, markerUntracked, head, index, stash, snapshots, history, clock, ticks, captured >>

\* `git add <f>` by the user or the task: the working-tree content of an
\* existing file is staged.
GitAdd(f) ==
    /\ isGit
    /\ tree[f] # 0
    /\ index[f] # tree[f]
    /\ index' = [index EXCEPT ![f] = tree[f]]
    /\ UNCHANGED << historyWritable, procs, cli, isGit, markerUntracked, head, tree, stash, snapshots, history,
                    clock, ticks, last, captured >>

\* The clock reaches the next second.
\* Seconds in which no snapshot directory was made are not counted.
TimePasses ==
    /\ clock < MaxSec
    /\ snapshots[clock].exists
    /\ clock' = clock + 1
    /\ last' = Call("time", NoFiles, 0, TRUE, 0, FALSE, FALSE)
    /\ UNCHANGED << historyWritable, procs, cli, isGit, markerUntracked, head, index, tree, stash, snapshots, history, ticks, captured >>

\* A metadata.json is damaged from outside (disk fault, manual edit).
CorruptMetadata(id, kind) ==
    /\ snapshots[id].exists
    /\ snapshots[id].metadata.kind = "valid"
    /\ snapshots' = [snapshots EXCEPT ![id].metadata.kind = kind]
    /\ last' = Call("corrupt", NoFiles, 0, TRUE, 0, FALSE, FALSE)
    /\ UNCHANGED << historyWritable, procs, cli, isGit, markerUntracked, head, index, tree, stash, history, clock, ticks, captured >>

\* A files.tar.gz is damaged from outside: it no longer opens as an archive.
CorruptArchive(id) ==
    /\ snapshots[id].backup.exists
    /\ snapshots[id].backup.readable
    /\ snapshots' = [snapshots EXCEPT ![id].backup.readable = FALSE]
    /\ last' = Call("corrupt", NoFiles, 0, TRUE, 0, FALSE, FALSE)
    /\ UNCHANGED << historyWritable, procs, cli, isGit, markerUntracked, head, index, tree, stash, history, clock, ticks, captured >>

\* logs/rollback_history.json stops being writable (read-only file or
\* directory, full disk, a directory in its place): write_text raises OSError.
HistoryBecomesUnwritable ==
    /\ historyWritable
    /\ historyWritable' = FALSE
    /\ last' = Call("lock", NoFiles, 0, TRUE, 0, FALSE, FALSE)
    /\ UNCHANGED << procs, cli, isGit, markerUntracked, head, index, tree, stash, snapshots,
                    history, clock, ticks, captured >>

(* --------------------------- specification ----------------------------- *)

\* After RollbackManager.__init__ on a project without snapshots: the
\* storage directories and the marker file exist, nothing else was done.
\* A project under version control has every committed file checked out
\* or changed; one without has no commit.
Init ==
    /\ \E p \in Projects : isGit = p[1] /\ markerUntracked = p[2] /\ head = p[3]
    /\ tree = [f \in Files |-> IF head[f] # 0 THEN head[f] ELSE IF isGit THEN 0 ELSE 1]
    /\ index = head
    /\ stash = << >>
    /\ snapshots = [i \in AnyIds |-> IF i = ROOT_ID THEN [NoDir EXCEPT !.exists = TRUE] ELSE NoDir]
    /\ history = << >>
    /\ clock = 1
    /\ ticks = 1
    /\ last = Call("init", NoFiles, 0, TRUE, 0, FALSE, FALSE)
    /\ captured = [i \in Ids |-> [f \in Files |-> 0]]
    /\ historyWritable = TRUE
    /\ procs = [p \in Procs |-> Idle]
    /\ cli = NoRun

\* The caps that keep the log and the stash stack finite.
HistoryWithin(n) == Len(history') <= n

StashWithin(n) == Len(stash') <= n

\* Capture and restore: every input of create_snapshot and rollback on a
\* project of any kind whose files are edited in between, within one clock
\* second, for runs of at most MaxHistory logged operations.
Next ==
    \/ \E task_id \in TaskIds, files \in FileArgs :
          create_snapshot(task_id, files) /\ HistoryWithin(MaxHistory)
    \/ \E snapshot_id \in Ids, files \in FileArgs :
          rollback(snapshot_id, files) /\ HistoryWithin(MaxHistory)
    \/ \E f \in Files, c \in Contents : EditFile(f, c)

Spec == Init /\ [][Next]_vars

\* Capture on a machine where create_snapshot can be stopped between the
\* stash push and the stash pop, which leaves entries on the stash stack.
NextCrash ==
    \/ \E task_id \in TaskIds, files \in FileArgs :
          create_snapshot(task_id, files) /\ HistoryWithin(MaxHistory)
    \/ \E task_id \in TaskIds :
          create_snapshot_interrupted(task_id) /\ StashWithin(MaxStash)
    \/ \E f \in Files, c \in Contents : EditFile(f, c)

SpecCrash == Init /\ [][NextCrash]_vars

\* The snapshot store under longer runs of create, delete and cleanup: the
\* retention and listing operations do not read the working tree, which
\* stays as it is (files is None, nothing is edited).
NextStore ==
    \/ \E task_id \in TaskIds :
          create_snapshot(task_id, NoFiles) /\ HistoryWithin(MaxStoreHistory)
    \/ \E snapshot_id \in Ids :
          delete_snapshot(snapshot_id) /\ HistoryWithin(MaxStoreHistory)
    \/ \E keep_count \in KeepCounts :
          cleanup_old_snapshots(keep_count) /\ HistoryWithin(MaxStoreHistory)
    \/ TimePasses

SpecStore == Init /\ [][NextStore]_vars

\* The same store on a disk that can damage metadata files.
NextCorrupt ==
    \/ \E task_id \in TaskIds :
          create_snapshot(task_id, NoFiles) /\ HistoryWithin(MaxCorruptHistory)
    \/ \E snapshot_id \in Ids :
          delete_snapshot(snapshot_id) /\ HistoryWithin(MaxCorruptHistory)
    \/ \E keep_count \in KeepCounts :
          cleanup_old_snapshots(keep_count) /\ HistoryWithin(MaxCorruptHistory)
    \/ TimePasses
    \/ \E id \in Ids, kind \in CorruptKinds : CorruptMetadata(id, kind)

SpecCorrupt == Init /\ [][NextCorrupt]_vars

\* Every public operation with every id a caller can pass, the id "" and
\* ids of no snapshot included, on a disk that can damage archives.
NextOps ==
    \/ \E task_id \in TaskIds, files \in FileArgs :
          create_snapshot(task_id, files) /\ HistoryWithin(MaxOpsHistory)
    \/ \E snapshot_id \in AnyIds, files \in FileArgs :
          rollback(snapshot_id, files) /\ HistoryWithin(MaxOpsHistory)
    \/ \E snapshot_id \in AnyIds :
          delete_snapshot(snapshot_id) /\ HistoryWithin(MaxOpsHistory)
    \/ \E keep_count \in KeepCounts :
          cleanup_old_snapshots(keep_count) /\ HistoryWithin(MaxOpsHistory)
    \/ TimePasses /\ clock' <= MaxOpsSec
    \/ \E id \in Ids : CorruptArchive(id)

SpecOps == Init /\ [][NextOps]_vars

\* The operations that write the history log, called by one process one
\* after the other, with no files list or with the list ["a.txt"].
NextLog ==
    \/ \E task_id \in TaskIds, files \in {a \in FileArgs : a.list \subseteq {"a.txt"}} :
          create_snapshot(task_id, files) /\ HistoryWithin(MaxOpsHistory)
    \/ \E snapshot_id \in Ids :
          rollback(snapshot_id, NoFiles) /\ HistoryWithin(MaxOpsHistory)
    \/ \E snapshot_id \in Ids :
          delete_snapshot(snapshot_id) /\ HistoryWithin(MaxOpsHistory)
    \/ \E keep_count \in KeepCounts :
          cleanup_old_snapshots(keep_count) /\ HistoryWithin(MaxOpsHistory)
    \/ TimePasses /\ clock' <= MaxOpsSec

SpecLog == Init /\ [][NextLog]_vars

\* The SNAPSHOT_ID arguments of the command line: the id of the one clock
\* second of SpecCli, and an id that names no snapshot.
CliIds == {1, 2}

\* The files arguments of the command line: no --files, or --files a.txt
\* (nargs="+": at least one path).
CliFileArgs == {a \in FileArgs : a.list \subseteq {"a.txt"} /\ (a.given => a.list # {})}

\* Runs of scripts/rollback.py with every subcommand and answer, on a
\* project whose tasks took snapshots and edited a.txt before the first
\* run, within one clock second; --dry-run is given to --latest and --id.
NextCli ==
    \/ \E task_id \in TaskIds :
          /\ cli = NoRun
          /\ create_snapshot(task_id, NoFiles)
          /\ HistoryWithin(MaxCliHistory)
    \/ \E c \in Contents : cli = NoRun /\ EditFile("a.txt", c)
    \/ cmd_list
    \/ \E dry_run, tty, yes \in BOOLEAN :
          \E answer \in AnswersAt(tty, yes) :
          cmd_latest(dry_run, tty, yes, answer) /\ HistoryWithin(MaxCliHistory)
    \/ \E snapshot_id \in CliIds, files \in CliFileArgs, dry_run, tty, yes \in BOOLEAN :
          \E answer \in AnswersAt(tty, yes) :
          /\ cmd_rollback_by_id(snapshot_id, files, dry_run, tty, yes, answer)
          /\ HistoryWithin(MaxCliHistory)
    \/ \E snapshot_id \in CliIds : cmd_diff(snapshot_id)
    \/ \E snapshot_id \in CliIds, tty, yes \in BOOLEAN :
          \E answer \in AnswersAt(tty, yes) :
          cmd_delete(snapshot_id, FALSE, tty, yes, answer) /\ HistoryWithin(MaxCliHistory)
    \/ \E keep_count \in KeepCounts, tty, yes \in BOOLEAN :
          \E answer \in AnswersAt(tty, yes) :
          cmd_cleanup(keep_count, FALSE, tty, yes, answer) /\ HistoryWithin(MaxCliHistory)

SpecCli == Init /\ [][NextCli]_vars

\* The contents a.txt is edited to between the runs on the failing disk.
CliDiskContents == {0, 1}

\* The same runs with --dry-run given to every subcommand and without
\* --files, on a disk where the history log can become unwritable.
NextCliDisk ==
    \/ \E task_id \in TaskIds :
          /\ cli = NoRun
          /\ create_snapshot(task_id, NoFiles)
          /\ HistoryWithin(MaxCliHistory)
          /\ ticks' <= MaxCliHistory + 1
    \/ \E c \in CliDiskContents : cli = NoRun /\ EditFile("a.txt", c)
    \/ cli = NoRun /\ HistoryBecomesUnwritable
    \/ cmd_list
    \/ \E dry_run, tty, yes \in BOOLEAN :
          \E answer \in AnswersAt(tty, yes) :
          cmd_latest(dry_run, tty, yes, answer) /\ HistoryWithin(MaxCliHistory)
    \/ \E snapshot_id \in CliIds, dry_run, tty, yes \in BOOLEAN :
          \E answer \in AnswersAt(tty, yes) :
          /\ cmd_rollback_by_id(snapshot_id, NoFiles, dry_run, tty, yes, answer)
          /\ HistoryWithin(MaxCliHistory)
    \/ \E snapshot_id \in CliIds : cmd_diff(snapshot_id)
    \/ \E snapshot_id \in CliIds, dry_run, tty, yes \in BOOLEAN :
          \E answer \in AnswersAt(tty, yes) :
          cmd_delete(snapshot_id, dry_run, tty, yes, answer) /\ HistoryWithin(MaxCliHistory)
    \/ \E keep_count \in KeepCounts, dry_run, tty, yes \in BOOLEAN :
          \E answer \in AnswersAt(tty, yes) :
          cmd_cleanup(keep_count, dry_run, tty, yes, answer) /\ HistoryWithin(MaxCliHistory)

SpecCliDisk == Init /\ [][NextCliDisk]_vars

\* Two manager processes, each performing one delete_snapshot or one full
\* rollback, whose steps interleave freely; the snapshots they work on are
\* taken before either of them starts.
NextRace ==
    \/ \E task_id \in TaskIds, files \in {a \in FileArgs : a.list \subseteq {"a.txt"}} :
          /\ \A p \in Procs : procs[p].pc = "idle"
          /\ create_snapshot(task_id, files)
          /\ HistoryWithin(MaxRaceHistory - 1)
    \/ /\ \A p \in Procs : procs[p].pc = "idle"
       /\ TimePasses
    \/ \E p \in Procs, snapshot_id \in Ids : StartDelete(p, snapshot_id)
    \/ \E p \in Procs, snapshot_id \in Ids : StartRollback(p, snapshot_id)
    \/ \E p \in Procs : Save(p)

SpecRace == Init /\ [][NextRace]_vars

\* The snapshot store on a disk where the history log can become
\* unwritable.
NextDisk ==
    \/ \E task_id \in TaskIds :
          /\ create_snapshot(task_id, NoFiles)
          /\ HistoryWithin(MaxDiskHistory)
          /\ ticks' <= MaxDiskHistory + 1
    \/ \E snapshot_id \in Ids :
          delete_snapshot(snapshot_id) /\ HistoryWithin(MaxDiskHistory)
    \/ \E keep_count \in KeepCounts :
          cleanup_old_snapshots(keep_count) /\ HistoryWithin(MaxDiskHistory)
    \/ TimePasses
    \/ HistoryBecomesUnwritable

SpecDisk == Init /\ [][NextDisk]_vars

\* Capture and restore in a repository whose user stages changes.
NextIndex ==
    \/ \E task_id \in TaskIds, files \in FileArgs :
          create_snapshot(task_id, files) /\ HistoryWithin(MaxIndexHistory)
    \/ \E snapshot_id \in Ids, files \in FileArgs :
          rollback(snapshot_id, files) /\ HistoryWithin(MaxIndexHistory)
    \/ \E f \in Files, c \in Contents : EditFile(f, c)
    \/ \E f \in Files : GitAdd(f)

SpecIndex == Init /\ [][NextIndex]_vars

(* ------------------------------ claims --------------------------------- *)

\* The newest entry of the history log.
LastEntry == history[Len(history)]

\* The metadata.json of the snapshot the newest history entry names.
LastSnapshot == snapshots[LastEntry.snapshot_id].metadata

\* rollback called without a files list: files=None, or an empty list.
FullArgs == {a \in FileArgs : ~(a.given /\ a.list # {})}

\* rollback called with a non-empty files list.
SelectiveArgs == FileArgs \ FullArgs

\* The files snapshot id was to capture that existed when it was taken.
CapturedFiles(id) ==
    {f \in Files : f \in snapshots[id].metadata.files_modified /\ captured[id][f] # 0}

\* C1 (as claimed): in every snapshot mode, a full rollback of a snapshot
\* gives every captured file the content it had when the snapshot was taken.
C1_RoundTripEveryMode ==
    [][\A id \in Ids, files \in FullArgs :
          (rollback(id, files) /\ get_snapshot(id).found)
             => \A f \in CapturedFiles(id) : tree'[f] = captured[id][f]]_vars

\* C2: without version control, a full rollback of a snapshot taken with an
\* explicit list of existing files returns true and gives every listed file
\* the content it had when the snapshot was taken.
C2_FileBackupRoundTrip ==
    [][\A id \in Ids, files \in FullArgs :
          (/\ ~isGit
           /\ get_snapshot(id).found
           /\ snapshots[id].metadata.files_modified # {}
           /\ CapturedFiles(id) = snapshots[id].metadata.files_modified
           /\ rollback(id, files))
             => /\ last'.ok
                /\ \A f \in CapturedFiles(id) : tree'[f] = captured[id][f]]_vars

\* C2 witness: without version control a full rollback returned true and
\* rewrote the tree, and every captured file reads its captured content.
C2_Witness ==
    /\ ~isGit
    /\ last.op = "rollback" /\ ~last.selective /\ last.ok /\ last.changed
    /\ CapturedFiles(LastEntry.snapshot_id) = {"a.txt", "b.txt"}
    /\ \A f \in Files : tree[f] = captured[LastEntry.snapshot_id][f]

\* What a selective rollback of snapshot id may write into file f: the
\* last commit's content in git-stash mode, the archive member otherwise.
RestoredContent(id, f) ==
    IF snapshots[id].metadata.mode = GIT_STASH /\ snapshots[id].metadata.git_ref # None
    THEN head[f]
    ELSE snapshots[id].backup.members[f]

\* C3: a rollback with a non-empty files list changes only files of the
\* list, each to its restored content (archive member, or last commit in
\* git-stash mode); every other file keeps its content.
C3_SelectiveRestore ==
    [][\A id \in Ids, files \in SelectiveArgs :
          rollback(id, files)
             => \A f \in Files :
                   \/ tree'[f] = tree[f]
                   \/ /\ f \in files.list
                      /\ get_snapshot(id).found
                      /\ tree'[f] = RestoredContent(id, f)]_vars

\* C3 witness: a selective rollback rewrote the tree from an archive and
\* left another member of the archive at its later content.
C3_Witness ==
    /\ last.op = "rollback" /\ last.selective /\ last.ok /\ last.changed
    /\ snapshots[LastEntry.snapshot_id].backup.exists
    /\ \E f \in Files :
          /\ snapshots[LastEntry.snapshot_id].backup.members[f] # 0
          /\ tree[f] # snapshots[LastEntry.snapshot_id].backup.members[f]

\* C4: without version control create_snapshot returns, for every argument,
\* a snapshot of mode file_backup whose metadata is stored, and raises nothing.
C4_FallbackGuarantee ==
    (~isGit /\ last.op = "create")
       => /\ ~last.raised
          /\ LastEntry.action = "create"
          /\ LastSnapshot.kind = "valid"
          /\ LastSnapshot.mode = FILE_BACKUP

\* C4 witness: without version control a snapshot was taken with no files
\* argument, and one with a files list.
C4_Witness ==
    /\ ~isGit /\ last.op = "create"
    /\ LastSnapshot.mode = FILE_BACKUP
    /\ LastSnapshot.files_modified = {}
    /\ LastSnapshot.backup_path = None

\* C5 (as claimed): when git_stash is selected and the capture fails (the
\* push fails, or it stashes nothing), the snapshot create_snapshot stores
\* has mode file_backup and no git_ref.
C5_StashFailureFallsBack ==
    [][\A task_id \in TaskIds, files \in FileArgs :
          (/\ create_snapshot(task_id, files)
           /\ _determine_mode(tree) = GIT_STASH
           /\ \/ GitStashPush(tree, stash, task_id).rc # 0
              \/ GitStashPush(tree, stash, task_id).stash = stash)
             => /\ snapshots'[_generate_snapshot_id].metadata.kind = "valid"
                /\ snapshots'[_generate_snapshot_id].metadata.mode = FILE_BACKUP
                /\ snapshots'[_generate_snapshot_id].metadata.git_ref = None]_vars

\* C6 (as claimed, where the stash has something to capture): in a
\* repository with a commit, no untracked file and at least one uncommitted
\* change, create_snapshot stores a git_stash snapshot with a git_ref and no
\* backup_path and leaves the working tree as it was.
C6_ScenarioB ==
    [][\A task_id \in TaskIds, files \in FileArgs :
          (/\ isGit
           /\ HasCommit
           /\ _get_untracked_files(tree) = {}
           /\ (\E f \in Files : tree[f] # head[f] \/ index[f] # head[f])
           /\ create_snapshot(task_id, files))
             => /\ snapshots'[_generate_snapshot_id].metadata.mode = GIT_STASH
                /\ snapshots'[_generate_snapshot_id].metadata.git_ref # None
                /\ snapshots'[_generate_snapshot_id].metadata.backup_path = None
                /\ tree' = tree]_vars

\* The directories whose metadata.json is damaged.
Damaged == {i \in Ids : snapshots[i].exists /\ snapshots[i].metadata.kind \in CorruptKinds}

\* The directories whose metadata.json is as create_snapshot wrote it.
Intact == {i \in Ids : snapshots[i].exists /\ snapshots[i].metadata.kind = "valid"}

\* The ids of a list of snapshots.
IdsOf(list) == {list[k].id : k \in 1..Len(list)}

\* C7 (as claimed): with the metadata.json of one snapshot damaged in any
\* way, list_snapshots raises nothing and returns every intact snapshot,
\* and get_snapshot of the damaged id returns None.
C7_ListingResilience ==
    \A id \in Ids :
       Damaged = {id}
          => /\ ~list_snapshots.raised
             /\ Intact \subseteq IdsOf(list_snapshots.list)
             /\ ~get_snapshot(id).raised
             /\ ~get_snapshot(id).found

\* The create entries of the history whose snapshot no later entry deleted.
Live ==
    {i \in 1..Len(history) :
        /\ history[i].action = "create"
        /\ ~\E j \in (i + 1)..Len(history) :
               history[j].action = "delete" /\ history[j].snapshot_id = history[i].snapshot_id}

\* A list of snapshots is ordered by created_at, newest first.
NewestFirst(list) ==
    \A k \in 1..(Len(list) - 1) : list[k].created_at > list[k + 1].created_at

\* C8 (as claimed): list_snapshots returns exactly the snapshots created
\* and not deleted, newest first; on an empty store the empty list.
C8_ListIsCreatedMinusDeleted ==
    /\ ~list_snapshots.raised
    /\ Len(list_snapshots.list) = Cardinality(Live)
    /\ IdsOf(list_snapshots.list) = {history[i].snapshot_id : i \in Live}
    /\ NewestFirst(list_snapshots.list)

\* C9: for keep_count >= 0, cleanup_old_snapshots(keep_count) on a store
\* listing n snapshots keeps the keep_count newest and deletes the
\* n - keep_count oldest when n > keep_count, deletes nothing otherwise,
\* and returns the number it deleted.
C9_CleanupKeepsNewest ==
    [][\A keep_count \in KeepCounts :
          (keep_count >= 0 /\ cleanup_old_snapshots(keep_count))
             => LET pre  == list_snapshots.list
                    post == list_snapshots_of(snapshots').list
                    n    == Len(pre)
                IN  IF n > keep_count
                    THEN /\ post = SubSeq(pre, 1, keep_count)
                         /\ \A k \in (keep_count + 1)..n : ~snapshots'[pre[k].id].exists
                         /\ \A k \in (keep_count + 1)..n, j \in 1..keep_count :
                               pre[k].created_at < pre[j].created_at
                         /\ last'.count = n - keep_count
                         /\ Len(history') = Len(history) + (n - keep_count)
                    ELSE /\ snapshots' = snapshots
                         /\ history' = history
                         /\ last'.count = 0]_vars

\* C9 witness: a cleanup that had to keep at least one snapshot deleted at
\* least two and left exactly keep_count.
C9_Witness ==
    /\ last.op = "cleanup" /\ last.keep >= 1 /\ last.count >= 2
    /\ Len(list_snapshots.list) = last.keep

\* C10 (as claimed): for every keep_count, a second
\* cleanup_old_snapshots(keep_count) right after the first deletes nothing
\* and returns 0.
C10_CleanupIdempotent ==
    [][\A keep_count \in KeepCounts :
          cleanup_old_snapshots(keep_count)
             => LET again == cleanup_old_snapshots_of(snapshots', history', keep_count)
                IN  /\ again.deleted = 0
                    /\ again.snapshots = snapshots']_vars

\* The metadata.json files that create_snapshot wrote and nothing damaged.
Persisted == {snapshots[i].metadata : i \in Intact}

\* C11 (as claimed): every persisted snapshot of mode git_stash has a
\* git_ref and no backup_path, and every persisted snapshot of mode
\* file_backup has a backup_path and no git_ref.
C11_ModeInvariant ==
    \A m \in Persisted :
       /\ m.mode = GIT_STASH => (m.git_ref # None /\ m.backup_path = None)
       /\ m.mode = FILE_BACKUP => (m.backup_path # None /\ m.git_ref = None)

\* C12 (as claimed): create_snapshot writes to a directory that did not
\* exist before the call, so no two calls share an id.
C12_UniqueIds ==
    [][\A task_id \in TaskIds, files \in FileArgs :
          create_snapshot(task_id, files) => ~snapshots[_generate_snapshot_id].exists]_vars

\* C13 (as claimed): no create_snapshot, rollback or edit of a project file
\* changes the metadata or the artifacts of a snapshot that exists.
C13_SnapshotImmutable ==
    [][\A id \in Ids : snapshots[id].exists => snapshots'[id] = snapshots[id]]_vars

\* rollback(id, files) executes a restore step: in git-stash mode a checkout
\* is issued; otherwise at least one member of the archive is extracted.
RestoreStepExecuted(id, files) ==
    IF snapshots[id].metadata.mode = GIT_STASH /\ snapshots[id].metadata.git_ref # None
    THEN TRUE
    ELSE \E f \in Files :
            /\ snapshots[id].backup.exists
            /\ snapshots[id].backup.members[f] # 0
            /\ (files.given /\ files.list # {}) => f \in files.list

\* C15 (as claimed): rollback returns true only if a restore step was
\* executed.
C15_TrueOnlyIfRestored ==
    [][\A id \in Ids, files \in FileArgs :
          (rollback(id, files) /\ last'.ok) => RestoreStepExecuted(id, files)]_vars

\* C18 (as claimed): every persisted hybrid snapshot records a git_ref, has
\* its stash_ref.txt and records a backup_path.
C18_HybridCombinesBoth ==
    \A m \in Persisted :
       m.mode = HYBRID
          => /\ m.git_ref # None
             /\ snapshots[m.id].stash_ref # None
             /\ m.backup_path # None

\* The entries a step appends to the history log.
Appended == SubSeq(history', Len(history) + 1, Len(history'))

\* The directories a step removes.
Removed == {i \in AnyIds : snapshots[i].exists /\ ~snapshots'[i].exists}

NamesNoSnapshot(id) == ~(snapshots[id].exists /\ snapshots[id].metadata.kind # "absent")

\* C16 (as claimed): for an id that names no persisted snapshot,
\* get_snapshot and diff return None, rollback and delete_snapshot return
\* false, and the working tree, the store and the history log stay as
\* they are.
C16_UnknownIdChangesNothing ==
    [][\A id \in AnyIds :
          NamesNoSnapshot(id)
             => /\ ~get_snapshot(id).raised /\ ~get_snapshot(id).found
                /\ ~diff(id).raised /\ ~diff(id).found
                /\ \A files \in FileArgs :
                      (last'.op = "rollback" /\ rollback(id, files))
                         => (~last'.ok /\ UNCHANGED << tree, snapshots, history >>)
                /\ (last'.op = "delete" /\ delete_snapshot(id))
                         => (~last'.ok /\ UNCHANGED << tree, snapshots, history >>)]_vars

\* C17 (as claimed): list_snapshots, get_snapshot and diff raise in no
\* state, and no rollback, delete_snapshot or cleanup_old_snapshots call
\* raises.
C17_NothingRaises ==
    [][/\ ~list_snapshots.raised
       /\ \A id \in AnyIds : ~get_snapshot(id).raised /\ ~diff(id).raised
       /\ last'.op \in {"rollback", "delete", "cleanup"} => ~last'.raised]_vars

\* C19 (as claimed): after a full rollback of a git_stash snapshot every
\* path has the content of the last commit: staged and unstaged changes
\* are gone and no path outside the last commit remains.
C19_FullGitRollbackDiscardsAll ==
    [][\A id \in Ids, files \in FullArgs :
          (/\ get_snapshot(id).found
           /\ snapshots[id].metadata.mode = GIT_STASH
           /\ snapshots[id].metadata.git_ref # None
           /\ rollback(id, files))
             => tree' = head]_vars

\* C20 (as claimed): a create_snapshot stopped between push and pop leaves
\* the working tree at the last commit with the user's changes in the new
\* stash entry, and no later create_snapshot brings them back: it leaves
\* the working tree as it found it and every entry that was on the stash
\* stack before it on the stack.
C20_InterruptionGap ==
    [][/\ \A task_id \in TaskIds :
             (last'.op = "interrupted" /\ create_snapshot_interrupted(task_id))
                => /\ tree' = head
                   /\ stash' = << Head(stash') >> \o stash
                   /\ Head(stash').saved = tree
       /\ \A task_id \in TaskIds, files \in FileArgs :
             (last'.op = "create" /\ create_snapshot(task_id, files))
                => /\ tree' = tree
                   /\ Len(stash') >= Len(stash)
                   /\ SubSeq(stash', Len(stash') - Len(stash) + 1, Len(stash')) = stash]_vars

\* C26 (as claimed): a full rollback of a snapshot that create_snapshot
\* stored and that was not deleted returns true, whatever the mode and the
\* arguments the snapshot was taken with.
C26_EverySnapshotRollsBack ==
    [][\A id \in Ids, files \in FullArgs :
          (/\ get_snapshot(id).found
           /\ rollback(id, files))
             => last'.ok]_vars

\* C28 (as claimed): after cleanup_old_snapshots(keep_count) returned, for
\* every integer keep_count, list_snapshots holds at most max(keep_count, 0)
\* snapshots.
C28_RetentionBound ==
    [][\A keep_count \in KeepCounts :
          (/\ last'.op = "cleanup"
           /\ cleanup_old_snapshots(keep_count)
           /\ ~last'.raised)
             => Len(list_snapshots_of(snapshots').list)
                   <= (IF keep_count > 0 THEN keep_count ELSE 0)]_vars

\* C29 (as claimed): create_snapshot leaves every stash entry that was on
\* the stack before it on the stack, and when its own push stashed nothing
\* it applies nothing to the working tree.
C29_PopsOnlyOwnEntry ==
    [][\A task_id \in TaskIds, files \in FileArgs :
          (/\ stash # << >>
           /\ last'.op = "create"
           /\ create_snapshot(task_id, files))
             => /\ stash' = stash
                /\ GitStashPush(tree, stash, task_id).stash = stash => tree' = tree]_vars

\* C30: a rollback of a file_backup or hybrid snapshot, full or selective,
\* leaves every file that is not a member of the snapshot's archive as it
\* found it.
C30_ArchiveRollbackWritesMembersOnly ==
    [][\A id \in Ids, files \in FileArgs :
          (/\ get_snapshot(id).found
           /\ snapshots[id].metadata.mode \in {FILE_BACKUP, HYBRID}
           /\ rollback(id, files))
             => \A f \in Files :
                   (~snapshots[id].backup.exists \/ snapshots[id].backup.members[f] = 0)
                      => tree'[f] = tree[f]]_vars

\* C30 witness: a rollback from an archive rewrote a member while a file
\* that is no member of the archive exists in the working tree.
C30_Witness ==
    /\ last.op = "rollback" /\ last.ok /\ last.changed
    /\ LastSnapshot.mode \in {FILE_BACKUP, HYBRID}
    /\ snapshots[LastEntry.snapshot_id].backup.exists
    /\ \E f \in Files :
          /\ snapshots[LastEntry.snapshot_id].backup.members[f] = 0
          /\ tree[f] # 0

\* C22 (as claimed, for the files a snapshot captured): under version
\* control diff(id) names a captured file exactly when the file's content
\* or existence differs from what it was when snapshot id was taken.
C22_DiffComparesWithSnapshot ==
    \A id \in Ids :
       (isGit /\ diff(id).found)
          => \A f \in Files \cap snapshots[id].metadata.files_modified :
                f \in diff(id).files <=> tree[f] # captured[id][f]

\* C27 (as claimed): delete_snapshot returns true exactly when it removed
\* the snapshot directory, and when it returns false for a directory that
\* exists the directory is left as it was.
C27_DeleteReportsWhatItDid ==
    [][\A id \in Ids :
          (last'.op = "delete" /\ delete_snapshot(id))
             => /\ last'.ok <=> (snapshots[id].exists /\ ~snapshots'[id].exists)
                /\ (~last'.ok /\ snapshots[id].exists) => snapshots'[id] = snapshots[id]]_vars

\* C21: when process p saves the log after another process has written it
\* since p loaded it, the save overwrites what the other process wrote: an
\* operation completes and the log does not grow.
C21_HistoryRace ==
    [][\A p \in Procs :
          (/\ procs[p].pc = "loaded"
           /\ Len(history) >= Len(procs[p].mine)
           /\ Save(p))
             => /\ history' = procs[p].mine
                /\ Len(history') <= Len(history)]_vars

\* C21 witness: both processes completed their operation from the same
\* loaded log, and the log holds one entry more than that log, not two.
C21_Witness ==
    /\ \A p \in Procs : procs[p].pc = "done"
    /\ Len(procs[1].mine) = Len(procs[2].mine)
    /\ history \in {procs[1].mine, procs[2].mine}
    /\ Len(history) = Len(procs[1].mine)

\* The destructive subcommands.
Destructive == {"latest", "id", "delete", "cleanup"}

\* The step is a run of destructive subcommand cmd, without --dry-run, that
\* passes every test in front of the confirmation: the snapshot is found,
\* there are more than keep_count snapshots.
ReachesConfirmation(cmd, dry_run, tty, yes, answer) ==
    \/ /\ cmd = "latest"
       /\ list_snapshots.list # << >>
       /\ cmd_latest(FALSE, tty, yes, answer)
    \/ /\ cmd = "id"
       /\ \E snapshot_id \in CliIds, files \in CliFileArgs :
             /\ get_snapshot(snapshot_id).found
             /\ cmd_rollback_by_id(snapshot_id, files, FALSE, tty, yes, answer)
    \/ /\ cmd = "delete"
       /\ \E snapshot_id \in CliIds :
             /\ get_snapshot(snapshot_id).found
             /\ cmd_delete(snapshot_id, dry_run, tty, yes, answer)
    \/ /\ cmd = "cleanup"
       /\ \E keep_count \in KeepCounts :
             /\ Len(list_snapshots.list) > keep_count
             /\ cmd_cleanup(keep_count, dry_run, tty, yes, answer)

\* C23: a destructive subcommand run on a terminal without --yes calls the
\* manager only after the answer y (in either case); with any other answer
\* the working tree, the store and the history stay as they are; with
\* --yes or without a terminal no prompt is shown and a run without
\* --dry-run that reaches the confirmation calls the manager.
C23_CliConfirmation ==
    [][(last'.op = "cli" /\ cli'.cmd \in Destructive)
          => /\ (cli'.tty /\ ~cli'.yes /\ Lower(cli'.answer) # "y")
                   => /\ ~cli'.performed
                      /\ UNCHANGED << tree, index, snapshots, history >>
             /\ (cli'.tty /\ ~cli'.yes /\ cli'.performed) => cli'.prompted
             /\ (cli'.yes \/ ~cli'.tty) => ~cli'.prompted
             /\ (cli'.prompted /\ Lower(cli'.answer) = "y") => cli'.performed
             /\ ((cli'.yes \/ ~cli'.tty) /\ ~cli'.performed)
                   => ~ReachesConfirmation(cli'.cmd, cli'.dry_run, cli'.tty, cli'.yes,
                                           cli'.answer)]_vars

\* C23 witness: a run on a terminal was cancelled at the prompt although
\* a rollback to the latest snapshot would have rewritten a.txt.
C23_Witness ==
    /\ last.op = "cli"
    /\ cli.cmd \in {"latest", "id"}
    /\ cli.tty /\ ~cli.yes /\ cli.answer = "n"
    /\ cli.prompted /\ ~cli.performed
    /\ rollback_of(get_latest_snapshot.id, NoFiles).ok
    /\ rollback_of(get_latest_snapshot.id, NoFiles).tree # tree

\* C24 (as claimed): a run that called the manager exits with 0 exactly
\* when rollback or delete_snapshot returned true, or cleanup_old_snapshots
\* deleted every snapshot beyond the newest max(keep_count, 0); a run that
\* names no snapshot exits with 1.
C24_CliExitCodes ==
    [][last'.op = "cli"
          => /\ (cli'.cmd \in {"latest", "id", "delete"} /\ cli'.performed)
                   => (cli'.exit = 0 <=> last'.ok)
             /\ (cli'.cmd = "cleanup" /\ cli'.performed)
                   => (cli'.exit = 0
                         <=> last'.count = Len(list_snapshots.list)
                                             - (IF last'.keep > 0 THEN last'.keep ELSE 0))
             /\ (cli'.cmd = "latest" /\ list_snapshots.list = << >>) => cli'.exit = 1
             /\ \A snapshot_id \in CliIds :
                   ~get_snapshot(snapshot_id).found
                      => /\ (cli'.cmd = "diff" /\ cmd_diff(snapshot_id)) => cli'.exit = 1
                         /\ (cli'.cmd = "delete"
                               /\ cmd_delete(snapshot_id, cli'.dry_run, cli'.tty, cli'.yes,
                                             cli'.answer))
                               => cli'.exit = 1
                         /\ (cli'.cmd = "id"
                               /\ \E files \in CliFileArgs :
                                     cmd_rollback_by_id(snapshot_id, files, cli'.dry_run,
                                                        cli'.tty, cli'.yes, cli'.answer))
                               => cli'.exit = 1]_vars

\* C25 (as claimed): a run with --dry-run, whatever the subcommand, leaves
\* the working tree, the index, the store and the history as they are.
C25_DryRunChangesNothing ==
    [][(last'.op = "cli" /\ cli'.dry_run)
          => UNCHANGED << tree, index, snapshots, history >>]_vars

=============================================================================
